---- MODULE Spec2Model ----
(***************************************************************************)
(* Model of data_preparation.py: the manifest builders timit_prepare and   *)
(* librispeech_prepare (constructor, skip(), create_scp()) and the files   *)
(* they leave in save_folder, and the stager copy_data_locally.            *)
(*                                                                         *)
(* One behaviour is the history of one save_folder used by one of the two  *)
(* classes: a sequence of constructor runs, each of which may be killed    *)
(* between two of its filesystem writes.                                   *)
(***************************************************************************)
EXTENDS Integers, Sequences, FiniteSets, TLC

VARIABLES
    tool,       \* the class whose runs use this save_folder
    corpus,     \* the data_folder (and label source): never written by a run
    budget,     \* number of constructor runs of this behaviour
    runs,       \* number of constructor runs started so far
    pc,         \* position of the current run / outcome of the last one
    conf,       \* self.conf of the current (or last) run
    i,          \* index of the next split to build in the current run
    scp,        \* save_folder/<split>.scp : Absent or the file written
    fp,         \* save_folder/opt_<class>.pkl : Absent or the pickled conf
    labfiles,   \* save_folder/kaldi_labels/*.pkl
    written,    \* history: manifests written by the current run
    fpWritten,  \* history: the current run has written the fingerprint
    fpBefore,   \* history: the fingerprint when the current run started
    prev,       \* history: outcome and conf of the run before the current
    result,     \* history: what the last create_scp call did
    log         \* history: error messages logged by the current run

VARIABLES
    archives,   \* self.data_file of copy_data_locally
    dest0,      \* the files of upper_folder before the first invocation
    dest,       \* the files of upper_folder
    extracted,  \* the archives unpacked into local_folder
    cpc,        \* position of the current invocation of copy_data_locally
    ci,         \* index of the next archive of the current invocation
    calls,      \* number of invocations started so far
    issued,     \* history: the shell commands of every invocation
    copyConf    \* self.conf of copy_data_locally: commands and their flags

VARIABLES
    made        \* the folders that the constructors have created

buildVars == <<tool, corpus, budget, runs, pc, conf, i, scp, fp, labfiles,
               written, fpWritten, fpBefore, prev, result, log>>

copyVars == <<archives, dest0, dest, extracted, cpc, ci, calls, issued,
              copyConf>>

vars == <<buildVars, copyVars, made>>

-----------------------------------------------------------------------------
(* Bounds *)

MaxRuns == 3        \* constructor runs per behaviour
MaxSmallN == 3      \* sizes 0..MaxSmallN of the wav list given to create_scp
MaxMissing == 2     \* utterances without a kaldi label in such a list
MaxSaveRuns == 2    \* runs per behaviour when save_pkl may be interrupted
MaxFiles == 2       \* files under data_folder when discovery is explored
MaxCopyCalls == 2   \* invocations of copy_data_locally per behaviour
MaxConfRuns == 2    \* runs per behaviour when options may be rejected

(* Program constants *)

RatioDen == 20      \* the threshold 0.05 of create_scp, as the ratio 1/20

Absent == [absent |-> TRUE]   \* a file that does not exist
Unbound == <<"unbound">>      \* a local variable that was never assigned
WhiteSpace == {" ", "\t", "\n"}
NoKey == <<"nokey", "nokey", "nokey">> \* no entry of text_dict under a key
NoField == <<"nofield">>      \* a manifest line without the kaldi_lab field
NoneOpt == <<>>               \* None, for an option whose lists are not empty
Corrupt == [corrupt |-> TRUE] \* a file of which only a part was written

-----------------------------------------------------------------------------
(* The corpus *)

TimitOrder == <<"train", "dev", "test">>
LibriNames == {"dev-clean", "test-clean"}
ScpNames == {"train", "dev", "test"} \cup LibriNames

Range(s) == {s[k] : k \in 1..Len(s)}

\* A path is the sequence of its segments, the names between two "/"; a
\* name is a sequence of pieces of text, so that "a_b" is <<"a", "_", "b">>
\* and "sx1.wav" is <<"sx1", ".wav">>.
Seg(name) == <<name>>

RECURSIVE Flatten(_)
Flatten(path) ==
    IF path = <<>> THEN <<>> ELSE Head(path) \o Flatten(Tail(path))

Pieces(path) == Range(Flatten(path))

\* name.replace(ext, "")
RECURSIVE Without(_, _)
Without(name, ext) ==
    IF name = <<>> THEN <<>>
    ELSE IF Head(name) = ext THEN Without(Tail(name), ext)
         ELSE <<Head(name)>> \o Without(Tail(name), ext)

\* line.split(" "): the parts of a text between its spaces, the empty parts
\* between two adjacent spaces included.
RECURSIVE SplitSpace(_, _)
SplitSpace(text, part) ==
    IF text = <<>> THEN <<part>>
    ELSE IF Head(text) = " "
         THEN <<part>> \o SplitSpace(Tail(text), <<>>)
         ELSE SplitSpace(Tail(text), Append(part, Head(text)))

SplitAtSpaces(text) == SplitSpace(text, <<>>)

\* text.replace(old, new)
Replace(text, old, new) ==
    [k \in 1..Len(text) |-> IF text[k] = old THEN new ELSE text[k]]

\* sep.join(parts)
RECURSIVE Join(_, _)
Join(parts, sep) ==
    IF parts = <<>> THEN <<>>
    ELSE IF Len(parts) = 1 THEN parts[1]
         ELSE parts[1] \o <<sep>> \o Join(Tail(parts), sep)

\* The text of a path: its segments with "/" between them.
PathText(path) == Join(path, "/")

\* wav_file.split("/")[-2]
SpkId(w) == w[Len(w) - 1]

\* snt_id = spk_id + "_" + wav_file.split("/")[-1].replace(".wav", "")
SntId(w) == SpkId(w) \o <<"_">> \o Without(w[Len(w)], ".wav")

\* lab_out_dir + "/" + snt_id + ".pkl"
LabPath(id) == <<"kaldi_labels", id>>

\* The text of snt_lab_path, lab_out_dir being save_folder + "/kaldi_labels".
LabPathText(lab_path) == <<"exp/kaldi_labels/">> \o lab_path[2] \o <<".pkl">>

\* str(duration) of signal.shape[0] / self.samplerate: a float, the same for
\* every file of the corpora here.
duration == "3.2"

\* snt_id of a LibriSpeech file: wav_file.split("/")[-1].replace(".flac", "")
LibriSntId(w) == Without(w[Len(w)], ".flac")

\* The first n parts of a name, where "-" separates the parts.
RECURSIVE FirstParts(_, _)
FirstParts(name, n) ==
    IF name = <<>> THEN <<>>
    ELSE IF Head(name) = "-"
         THEN IF n <= 1 THEN <<>>
              ELSE <<"-">> \o FirstParts(Tail(name), n - 1)
         ELSE <<Head(name)>> \o FirstParts(Tail(name), n)

\* spk_id = "-".join(snt_id.split("-")[0:2])
LibriSpkId(snt_id) == FirstParts(snt_id, 2)

\* <root>/<top>/dr3/<spk>/<stem>.wav
TimitPath(root, top, spk, stem) ==
    <<root, Seg(top), Seg("dr3"), spk, stem \o <<".wav">>>>

Stem(k) == Seg("sx" \o ToString(k))

\* The wav files of one speaker, stems sx1..sx<n>, in traversal order.
Utts(top, spk, n) ==
    [k \in 1..n |-> TimitPath(Seg("TIMIT"), top, Seg(spk), Stem(k))]

\* The files of data_folder in traversal order: n files of a training
\* speaker, one of a dev speaker and one of a test speaker.
TimitFiles(n) ==
    Utts("train", "mtpg0", n) \o Utts("test", "fadg0", 1)
        \o Utts("test", "fdhc0", 1)

TrainId(k) == SntId(TimitPath(Seg("TIMIT"), "train", Seg("mtpg0"), Stem(k)))

AllIds(files) == {SntId(w) : w \in Range(files)}

\* <root>/<split>/84/121123/84-121123-<k>.flac
LibriPath(split, k) ==
    <<Seg("LibriSpeech"), Seg(split), Seg("84"), Seg("121123"),
      <<"84", "-", "121123", "-", ToString(k), ".flac">>>>

LibriFiles ==
    <<LibriPath("dev-clean", 1), LibriPath("dev-clean", 2),
      LibriPath("test-clean", 3), LibriPath("test-clean", 4)>>

\* The lines of a .phn file and of a .wrd file as TIMIT has them, and the
\* words that a line of a trans.txt file has after the sentence id.
TimitPhn ==
    <<<<"0", " ", "3050", " ", "h#">>, <<"3050", " ", "4559", " ", "sh">>,
      <<"4559", " ", "5723", " ", "ix">>, <<"5723", " ", "6642", " ", "h#">>>>

TimitWrd ==
    <<<<"3050", " ", "5723", " ", "she">>, <<"5723", " ", "10337", " ", "had">>>>

LibriTrans == <<"GO", " ", "DO", " ", "YOU", " ", "HEAR">>

\* A TIMIT corpus with n files of the training speaker, of which those with
\* a number in missing have no entry in the kaldi labels, and those with a
\* number in nosib have no .wrd / .phn file next to the .wav.
TimitCorpus(n, missing, nosib) ==
    [files |-> TimitFiles(n),
     lab   |-> AllIds(TimitFiles(n)) \ {TrainId(k) : k \in missing},
     nosib |-> {TrainId(k) : k \in nosib},
     text  |-> {},
     nodir |-> {},
     phn   |-> TimitPhn,
     wrd   |-> TimitWrd,
     trans |-> <<>>]

\* A LibriSpeech corpus; the files with a number in notext have no line in
\* a trans.txt file.
LibriCorpus(notext) ==
    [files |-> LibriFiles,
     lab   |-> {},
     nosib |-> {},
     nodir |-> {},
     phn   |-> <<>>,
     wrd   |-> <<>>,
     trans |-> LibriTrans,
     text  |-> {LibriSntId(w) : w \in Range(LibriFiles)}
               \ {LibriSntId(LibriPath("test-clean", k)) : k \in notext}]

\* The corpus without the folders dirs of data_folder.
WithNoDir(corp, dirs) == [corp EXCEPT !.nodir = dirs]

Corpora(t) ==
    IF t = "timit"
    THEN {TimitCorpus(2, {}, {}), TimitCorpus(2, {2}, {}),
          TimitCorpus(2, {1}, {}), TimitCorpus(2, {}, {2}),
          WithNoDir(TimitCorpus(2, {}, {}), {"train/dr1"})}
    ELSE {LibriCorpus({}), LibriCorpus({4}),
          WithNoDir(LibriCorpus({}), {"test-clean"})}

-----------------------------------------------------------------------------
(* Configurations *)

TimitSplitChoices == {{"train"}, {"dev", "test"}, {"train", "dev", "test"}}

TimitConfs == [class : {"timit"}, splits : TimitSplitChoices,
               kaldi : BOOLEAN]

LibriSplitChoices == {<<"dev-clean">>, <<"test-clean">>,
                      <<"dev-clean", "test-clean">>}

LibriConfs == [class : {"librispeech"}, splits : LibriSplitChoices,
               select_n_sentences : {NoneOpt, <<1>>, <<1, 2>>, <<3, 1>>}]

Confs(t) == IF t = "timit" THEN TimitConfs ELSE LibriConfs

NoConf == [class |-> "none"]

\* The splits a run builds, in the order in which it builds them.
RECURSIVE Filter(_, _)
Filter(seq, set) ==
    IF seq = <<>> THEN <<>>
    ELSE IF Head(seq) \in set THEN <<Head(seq)>> \o Filter(Tail(seq), set)
         ELSE Filter(Tail(seq), set)

\* Every split of TIMIT built, listed in self.splits or not.
SplitSeq_All(c) ==
    IF c.class = "timit" THEN TimitOrder
    ELSE IF c.class = "librispeech" THEN c.splits
    ELSE <<>>

SplitSeq(c) ==
    IF c.class = "timit" THEN Filter(TimitOrder, c.splits)
    ELSE IF c.class = "librispeech" THEN c.splits
    ELSE <<>>

-----------------------------------------------------------------------------
(* Collaborators of utils.py and data_io.py *)

\* logger_write(msg, logfile, level): writes the message to the log and
\* returns to its caller, at the level "debug" and at the default level of
\* the error messages alike.
logger_write(level) == "continue"

\* token in piece: a piece of text holds itself and the tokens listed here.
Longer == {<<"sa1", "sa10">>, <<"train", "trainset">>, <<"test", "testset">>}

Sub(tok, piece) == piece = tok \/ <<tok, piece>> \in Longer

\* token in path
Contains(path, tok) == \E piece \in Pieces(path) : Sub(tok, piece)

Matches(path, match_and, match_or, exclude_or) ==
    /\ \A t \in match_and : Contains(path, t)
    /\ match_or = {} \/ \E t \in match_or : Contains(path, t)
    /\ ~ \E t \in exclude_or : Contains(path, t)

\* get_all_files(dirName, match_and, match_or, exclude_or): the files under
\* dirName, in traversal order, whose path holds every token of match_and,
\* one token of match_or when there are any, and no token of exclude_or.
RECURSIVE get_all_files(_, _, _, _)
get_all_files(files, match_and, match_or, exclude_or) ==
    IF files = <<>> THEN <<>>
    ELSE (IF Matches(Head(files), match_and, match_or, exclude_or)
          THEN <<Head(files)>> ELSE <<>>)
         \o get_all_files(Tail(files), match_and, match_or, exclude_or)

\* check_opts(self, expected_options, config): the resolved options when
\* config is one of the configurations that expected_options admits, and a
\* fatal configuration error otherwise.
check_opts(expected, config) ==
    IF config \in expected THEN "resolved" ELSE "fatal"

\* write_txt_file(data, filename): the file is created or overwritten, and
\* holds the lines of data.
write_txt_file(data) == data

\* load_pkl(file): the saved value; a file that holds no whole value makes
\* the call fail, by raising or by returning something that is not the value.
load_pkl(content) ==
    IF content = Corrupt THEN {"raise", "garbage"} ELSE {"value"}

-----------------------------------------------------------------------------
(* File discovery of the two constructors *)

\* self.test_spk, self.dev_spk: the first two speakers of each list
test_spk == {"fdhc0", "felc0"}
dev_spk == {"fadg0", "faks0"}

avoid_sentences == {"sa1", "sa2"}
extension == {".wav"}

\* match_lst = self.extension + ["train"] / self.extension + ["test"]
TimitMatchAnd(split) ==
    extension \cup {IF split = "train" THEN "train" ELSE "test"}

\* match_or with the lists of dev and test exchanged.
TimitMatchOr_Exchanged(split) ==
    CASE split = "train" -> {}
      [] split = "dev"   -> test_spk
      [] split = "test"  -> dev_spk

\* match_or: none for train, self.dev_spk for dev, self.test_spk for test
TimitMatchOr(split) ==
    CASE split = "train" -> {}
      [] split = "dev"   -> dev_spk
      [] split = "test"  -> test_spk

\* wav_lst_train, wav_lst_dev, wav_lst_test
TimitWavLst(c, split) ==
    get_all_files(c.files, TimitMatchAnd(split), TimitMatchOr(split),
                  avoid_sentences)

\* The files under self.data_folder + "/" + split
RECURSIVE UnderSplit(_, _)
UnderSplit(files, split) ==
    IF files = <<>> THEN <<>>
    ELSE (IF Head(files)[2] = Seg(split) THEN <<Head(files)>> ELSE <<>>)
         \o UnderSplit(Tail(files), split)

\* wav_lst of librispeech_prepare.__init__; a folder that does not exist
\* holds no file.
LibriWavLst(c, split) ==
    IF split \in c.nodir THEN <<>>
    ELSE get_all_files(UnderSplit(c.files, split), {".flac"}, {}, {})

-----------------------------------------------------------------------------
(* skip() *)

IsFile(f) == f # Absent

\* timit_prepare.skip
TimitSkip(files, opt, c) ==
    IF /\ IsFile(files["train"])
       /\ IsFile(files["dev"])
       /\ IsFile(files["test"])
       /\ IsFile(opt)
    THEN opt = c
    ELSE FALSE

\* The loop of librispeech_prepare.skip over self.splits
LibriScpAllThere(files, c) ==
    \A k \in 1..Len(c.splits) : IsFile(files[c.splits[k]])

\* librispeech_prepare.skip without the comparison of the saved options.
LibriSkip_NoCompare(files, opt, c) == LibriScpAllThere(files, c)

\* librispeech_prepare.skip
LibriSkip(files, opt, c) ==
    IF LibriScpAllThere(files, c)
    THEN IF IsFile(opt) THEN opt = c ELSE TRUE
    ELSE FALSE

\* skip() gets as far as load_pkl(self.save_opt).
SkipLoads(files, opt, c) ==
    IF c.class = "timit"
    THEN /\ IsFile(files["train"])
         /\ IsFile(files["dev"])
         /\ IsFile(files["test"])
         /\ IsFile(opt)
    ELSE LibriScpAllThere(files, c) /\ IsFile(opt)

Skip(files, opt, c) ==
    IF c.class = "timit" THEN TimitSkip(files, opt, c)
    ELSE LibriSkip(files, opt, c)

-----------------------------------------------------------------------------
(* timit_prepare.create_scp *)

\* The record put in front of the records collected so far.
AddLine_InFront(scp_lines, line) == <<line>> \o scp_lines

\* scp_lines.append(scp_line)
AddLine(scp_lines, line) == Append(scp_lines, line)

\* The value given to missing_lab when a sentence has no kaldi label.
MissingLabOnMiss == FALSE

\* snt_no_lab / len(wav_lst) > 0.05, exactly: the quotient of two small
\* integers is above the double 0.05 iff 20 * snt_no_lab > len(wav_lst).
TooManyMissing(snt_no_lab, n) == RatioDen * snt_no_lab > n

\* The state before the loop when scp_lines is not emptied.
TimitScpInit_Stale ==
    [snt_no_lab   |-> 0,
     snt_lab_path |-> Unbound,
     scp_lines    |-> <<[ID |-> <<"stale">>, wav |-> <<<<"stale">>>>,
                         spk_id |-> <<"stale">>, kaldi_lab |-> NoField]>>,
     saved        |-> {},
     errs         |-> 0,
     raised       |-> "none"]

\* The state before the loop over wav_lst.
TimitScpInit ==
    [snt_no_lab   |-> 0,
     snt_lab_path |-> Unbound,
     scp_lines    |-> <<>>,
     saved        |-> {},
     errs         |-> 0,
     raised       |-> "none"]

\* One iteration of the loop over wav_lst.
\* line.rstrip("\n").split(" ") for a line of the .wrd file
WrdParts(line) == SplitAtSpaces(line)

\* The line of the .phn file as it is split, 'h#' left as it is.
PhnLine_Raw(line) == line

\* line.rstrip("\n").replace("h#", "sil") for a line of the .phn file
PhnLine(line) == Replace(line, "h#", "sil")

PhnParts(line) == SplitAtSpaces(PhnLine(line))

\* The composition of the scp_line.
TimitScpLine(snt_id, w, spk_id, phonemes, words, kaldi, lab_path) ==
    <<"ID=">> \o snt_id
        \o <<" ", "duration=", duration>>
        \o <<" ", "wav=(">> \o PathText(w) \o <<",wav)">>
        \o <<" ", "spk_id=(">> \o spk_id \o <<",string)">>
        \o <<" ", "phn=(">> \o Replace(phonemes, " ", "_") \o <<",string)">>
        \o <<" ", "wrd=(">> \o Replace(words, " ", "_") \o <<",string)">>
        \o (IF kaldi /\ lab_path # Unbound
            THEN <<" ", "kaldi_lab=(">> \o LabPathText(lab_path) \o <<",pkl)">>
            ELSE <<>>)

TimitScpStep(st, w, n, kaldi, c) ==
    LET snt_id   == SntId(w)
        miss     == kaldi /\ snt_id \notin c.lab
        hit      == kaldi /\ snt_id \in c.lab
        no_lab   == IF miss THEN st.snt_no_lab + 1 ELSE st.snt_no_lab
        lab_path == IF hit THEN LabPath(snt_id) ELSE st.snt_lab_path
        saved    == IF hit
                    THEN st.saved \cup {[path |-> LabPath(snt_id),
                                         blob |-> snt_id]}
                    ELSE st.saved
        missing_lab == miss /\ MissingLabOnMiss
        over     == kaldi /\ TooManyMissing(no_lab, n)
        errs     == IF over THEN st.errs + 1 ELSE st.errs
        s1       == [st EXCEPT !.snt_no_lab = no_lab,
                               !.snt_lab_path = lab_path,
                               !.saved = saved,
                               !.errs = errs]
        short    == \/ \E k \in 1..Len(c.wrd) : Len(WrdParts(c.wrd[k])) < 3
                    \/ \E k \in 1..Len(c.phn) : Len(PhnParts(c.phn[k])) < 3
        words    == Join([k \in 1..Len(c.wrd) |-> WrdParts(c.wrd[k])[3]], "_")
        phonemes == Join([k \in 1..Len(c.phn) |-> PhnParts(c.phn[k])[3]], "_")
        line     == [ID |-> snt_id, wav |-> w, spk_id |-> SpkId(w),
                     kaldi_lab |-> IF kaldi THEN lab_path ELSE NoField,
                     phn |-> phonemes, wrd |-> words,
                     text |-> TimitScpLine(snt_id, w, SpkId(w), phonemes,
                                           words, kaldi, lab_path)]
    IN  IF over /\ logger_write("error") = "abort"
        THEN [s1 EXCEPT !.raised = "threshold"]
        ELSE IF missing_lab THEN s1
        ELSE IF snt_id \in c.nosib
        THEN [s1 EXCEPT !.raised = "FileNotFoundError"]
        ELSE IF short
        THEN [s1 EXCEPT !.raised = "IndexError"]
        ELSE IF kaldi /\ lab_path = Unbound
        THEN [s1 EXCEPT !.raised = "UnboundLocalError"]
        ELSE [s1 EXCEPT !.scp_lines = AddLine(st.scp_lines, line)]

RECURSIVE TimitScpLoop(_, _, _, _, _)
TimitScpLoop(st, k, wav_lst, kaldi, c) ==
    IF k > Len(wav_lst) \/ st.raised # "none" THEN st
    ELSE TimitScpLoop(TimitScpStep(st, wav_lst[k], Len(wav_lst), kaldi, c),
                      k + 1, wav_lst, kaldi, c)

\* create_scp with the ratio of missing labels taken once, after the loop.
TimitCreateScp_RatioAfterLoop(wav_lst, kaldi, c) ==
    IF kaldi /\ Len(wav_lst) = 0
    THEN [TimitScpInit EXCEPT !.raised = "ZeroDivisionError"]
    ELSE TimitScpLoop(TimitScpInit, 1, wav_lst, kaldi, c)

\* The loop of create_scp before its first iteration and after each
\* iteration it makes, from the k-th file of wav_lst on.
RECURSIVE TimitScpStates(_, _, _, _, _)
TimitScpStates(st, k, wav_lst, kaldi, c) ==
    IF k > Len(wav_lst) \/ st.raised # "none" THEN <<st>>
    ELSE <<st>> \o
         TimitScpStates(TimitScpStep(st, wav_lst[k], Len(wav_lst), kaldi, c),
                        k + 1, wav_lst, kaldi, c)

\* The whole of create_scp up to the call of write_txt_file.
TimitCreateScp(wav_lst, kaldi, c) ==
    TimitScpLoop(TimitScpInit, 1, wav_lst, kaldi, c)

-----------------------------------------------------------------------------
(* librispeech_prepare.create_scp *)

\* line.strip(): the line without the white space at its two ends.
RECURSIVE Strip(_)
Strip(line) ==
    IF line = <<>> THEN <<>>
    ELSE IF Head(line) \in WhiteSpace THEN Strip(Tail(line))
    ELSE IF line[Len(line)] \in WhiteSpace
         THEN Strip(SubSeq(line, 1, Len(line) - 1))
         ELSE line

\* The line of a trans.txt file for one sentence.
TransLine(snt_id, c) == snt_id \o <<" ">> \o c.trans \o <<"\n">>

\* text_dict[snt_id] after text_to_dict: the line is split at its spaces, the
\* first part is the key and the other parts, joined by "_", are the value.
text_to_dict(snt_id, c) ==
    LET line_lst == SplitAtSpaces(Strip(TransLine(snt_id, c)))
    IN  IF line_lst[1] = snt_id THEN Join(Tail(line_lst), "_") ELSE NoKey

\* The composition of the scp_line.
LibriScpLine(snt_id, w, spk_id, wrd) ==
    <<"ID=">> \o snt_id
        \o <<" ", "duration=", duration>>
        \o <<" ", "wav=(">> \o PathText(w) \o <<",flac)">>
        \o <<" ", "spk_id=(">> \o spk_id \o <<",string)">>
        \o <<" ", "wrd=(">> \o wrd \o <<",string)">>

LibriScpInit ==
    [scp_lines |-> <<>>, snt_cnt |-> 0, stop |-> FALSE, raised |-> "none"]

\* One iteration that compares the count with select_n_sentences before the
\* count is incremented.
LibriScpStep_StopLate(st, w, select_n, c) ==
    LET snt_id == LibriSntId(w)
        wrd    == text_to_dict(snt_id, c)
        line   == [ID |-> snt_id, wav |-> w, spk_id |-> LibriSpkId(snt_id),
                   wrd |-> wrd,
                   text |-> LibriScpLine(snt_id, w, LibriSpkId(snt_id), wrd)]
    IN  IF snt_id \notin c.text \/ wrd = NoKey
        THEN [st EXCEPT !.raised = "KeyError"]
        ELSE [st EXCEPT !.scp_lines = AddLine(st.scp_lines, line),
                        !.snt_cnt = st.snt_cnt + 1,
                        !.stop = (st.snt_cnt = select_n)]

\* One iteration of the loop over wav_lst.
LibriScpStep(st, w, select_n, c) ==
    LET snt_id == LibriSntId(w)
        wrd    == text_to_dict(snt_id, c)
        line   == [ID |-> snt_id, wav |-> w, spk_id |-> LibriSpkId(snt_id),
                   wrd |-> wrd,
                   text |-> LibriScpLine(snt_id, w, LibriSpkId(snt_id), wrd)]
    IN  IF snt_id \notin c.text \/ wrd = NoKey
        THEN [st EXCEPT !.raised = "KeyError"]
        ELSE [st EXCEPT !.scp_lines = AddLine(st.scp_lines, line),
                        !.snt_cnt = st.snt_cnt + 1,
                        !.stop = (st.snt_cnt + 1 = select_n)]

RECURSIVE LibriScpLoop(_, _, _, _, _)
LibriScpLoop(st, k, wav_lst, select_n, c) ==
    IF k > Len(wav_lst) \/ st.stop \/ st.raised # "none" THEN st
    ELSE LibriScpLoop(LibriScpStep(st, wav_lst[k], select_n, c),
                      k + 1, wav_lst, select_n, c)

LibriCreateScp(wav_lst, select_n, c) ==
    LibriScpLoop(LibriScpInit, 1, wav_lst, select_n, c)

-----------------------------------------------------------------------------
(* check_timit_folders, check_librispeech_folders *)

\* The sub-folders of data_folder that the check looks for.
ExpectedDirs(c) ==
    IF c.class = "timit" THEN {"test/dr1", "train/dr1"}
    ELSE Range(c.splits)

\* The check logs one error for every expected folder that does not exist.
FoldersMissing(c, corp) == ExpectedDirs(c) \cap corp.nodir # {}

-----------------------------------------------------------------------------
(* The constructor *)

NoResult == [split |-> "none"]

Terminal ==
    {"idle", "skipped", "done", "crashed", "killed", "load_failed",
     "config_error"}

\* The options saved as soon as one split is built.
NextPc_SaveEarly(k, n) == "saveopt"

\* Where the constructor goes once the k-th of its n splits is built: to
\* the next split, and to save_pkl(self.conf, self.save_opt) after the last.
NextPc(k, n) == IF k >= n THEN "saveopt" ELSE "build"

\* The constructor up to the return of skip(): self.conf is set, the file
\* names are set and skip() decides between returning and building.
Start(c) ==
    /\ pc \in Terminal
    /\ runs < budget
    /\ conf' = c
    /\ runs' = runs + 1
    /\ prev' = [pc |-> pc, conf |-> conf]
    /\ written' = {}
    /\ fpWritten' = FALSE
    /\ fpBefore' = fp
    /\ log' = {}
    /\ result' = NoResult
    /\ i' = 1
    /\ \E loaded \in load_pkl(fp) :
          pc' = IF SkipLoads(scp, fp, c) /\ loaded = "raise"
                THEN "load_failed"
                ELSE IF Skip(scp, fp, c) THEN "skipped" ELSE "validate"
    /\ UNCHANGED <<tool, corpus, budget, scp, fp, labfiles>>
    /\ UNCHANGED copyVars
    /\ made' = made \cup {"save_folder"}

\* self.check_timit_folders() / self.check_librispeech_folders()
Validate ==
    /\ pc = "validate"
    /\ log' = IF FoldersMissing(conf, corpus)
              THEN log \cup {"structure"} ELSE log
    /\ pc' = IF FoldersMissing(conf, corpus)
                /\ logger_write("error") = "abort"
             THEN "crashed"
             ELSE NextPc(0, Len(SplitSeq(conf)))
    /\ UNCHANGED <<tool, corpus, budget, runs, conf, i, scp, fp, labfiles,
                   written, fpWritten, fpBefore, prev, result>>
    /\ UNCHANGED copyVars
    /\ UNCHANGED made

\* One "if <split> in self.splits" block of timit_prepare.__init__:
\* get_all_files, then create_scp, which ends by writing the manifest.
\* The folder that create_scp makes before its loop when labels are given:
\* lab_out_dir = self.save_folder + "/kaldi_labels".
LabOutDir(kaldi) == IF kaldi THEN {"kaldi_labels"} ELSE {}

TimitBuildSplit ==
    /\ pc = "build"
    /\ tool = "timit"
    /\ \E r \in {TimitCreateScp(TimitWavLst(corpus, SplitSeq(conf)[i]),
                                 conf.kaldi, corpus)} :
       LET split   == SplitSeq(conf)[i]
           wav_lst == TimitWavLst(corpus, split)
           ok      == r.raised = "none"
       IN  /\ labfiles' = labfiles \cup r.saved
           /\ scp' = IF ok
                     THEN [scp EXCEPT ![split] =
                              [by |-> conf,
                               lines |-> write_txt_file(r.scp_lines)]]
                     ELSE scp
           /\ written' = IF ok THEN written \cup {split} ELSE written
           /\ log' = IF r.errs > 0 THEN log \cup {"ratio"} ELSE log
           /\ result' = [split      |-> split,
                         wav_lst    |-> wav_lst,
                         kaldi      |-> conf.kaldi,
                         snt_no_lab |-> r.snt_no_lab,
                         errs       |-> r.errs,
                         saved      |-> r.saved,
                         raised     |-> r.raised]
           /\ pc' = IF ok THEN NextPc(i, Len(SplitSeq(conf))) ELSE "crashed"
    /\ i' = i + 1
    /\ made' = made \cup LabOutDir(conf.kaldi)
    /\ UNCHANGED <<tool, corpus, budget, runs, conf, fp, fpWritten,
                   fpBefore, prev>>
    /\ UNCHANGED copyVars

\* One iteration of the loop over self.splits of
\* librispeech_prepare.__init__.
\* When select_n_sentences has no entry for the split, IndexError is raised
\* before create_scp is called: r is then not used.
LibriBuildSplit ==
    /\ pc = "build"
    /\ tool = "librispeech"
    /\ \E wav_lst \in {LibriWavLst(corpus, SplitSeq(conf)[i])} :
       \E r \in {LibriCreateScp(
                    wav_lst,
                    IF conf.select_n_sentences = NoneOpt THEN Len(wav_lst)
                    ELSE IF i > Len(conf.select_n_sentences) THEN 0
                    ELSE conf.select_n_sentences[i],
                    corpus)} :
       LET split   == SplitSeq(conf)[i]
           sel     == conf.select_n_sentences
           index_error == sel # NoneOpt /\ i > Len(sel)
           raised  == IF index_error THEN "IndexError" ELSE r.raised
           ok      == raised = "none"
       IN  /\ scp' = IF ok
                     THEN [scp EXCEPT ![split] =
                              [by |-> conf,
                               lines |-> write_txt_file(r.scp_lines)]]
                     ELSE scp
           /\ written' = IF ok THEN written \cup {split} ELSE written
           /\ result' = [split      |-> split,
                         wav_lst    |-> wav_lst,
                         kaldi      |-> FALSE,
                         snt_no_lab |-> 0,
                         errs       |-> 0,
                         saved      |-> {},
                         raised     |-> raised]
           /\ pc' = IF ok THEN NextPc(i, Len(SplitSeq(conf))) ELSE "crashed"
    /\ i' = i + 1
    /\ UNCHANGED <<tool, corpus, budget, runs, conf, fp, labfiles,
                   fpWritten, fpBefore, prev, log>>
    /\ UNCHANGED copyVars
    /\ UNCHANGED made

\* save_pkl(self.conf, self.save_opt), the last statement of __init__.
SaveOpt ==
    /\ pc = "saveopt"
    /\ fp' = conf
    /\ fpWritten' = TRUE
    /\ pc' = "done"
    /\ UNCHANGED <<tool, corpus, budget, runs, conf, i, scp, labfiles,
                   written, fpBefore, prev, result, log>>
    /\ UNCHANGED copyVars
    /\ UNCHANGED made

\* The process is killed between the skip check and the fingerprint write.
Kill ==
    /\ pc \in {"validate", "build", "saveopt"}
    /\ pc' = "killed"
    /\ UNCHANGED <<tool, corpus, budget, runs, conf, i, scp, fp, labfiles,
                   written, fpWritten, fpBefore, prev, result, log>>
    /\ UNCHANGED copyVars
    /\ UNCHANGED made

\* The process is killed inside create_scp of timit_prepare with labels
\* given, after the folder of the label files is made: before the loop,
\* inside one of its iterations or at the call of write_txt_file. An
\* iteration first saves the label file, then logs the error of the ratio,
\* and raises, if it does, only after the two; so the process is killed with
\* the label files of the iterations up to the j-th state of the loop, and
\* with the errors logged up to that state (e = j) or up to the state before
\* it (e = j - 1: the label of the iteration is saved, its error is not yet
\* logged). The manifest is not written.
KillDuringBuild ==
    /\ pc = "build"
    /\ tool = "timit"
    /\ conf.kaldi
    /\ LET split   == SplitSeq(conf)[i]
           wav_lst == TimitWavLst(corpus, split)
       IN  \E states \in {TimitScpStates(TimitScpInit, 1, wav_lst,
                                          conf.kaldi, corpus)} :
           \E j \in 1..Len(states) :
           \E e \in {j - 1, j} \cap (1..Len(states)) :
              /\ labfiles' = labfiles \cup states[j].saved
              /\ log' = IF states[e].errs > 0 THEN log \cup {"ratio"}
                        ELSE log
    /\ made' = made \cup LabOutDir(conf.kaldi)
    /\ pc' = "killed"
    /\ UNCHANGED <<tool, corpus, budget, runs, conf, i, scp, fp, written,
                   fpWritten, fpBefore, prev, result>>
    /\ UNCHANGED copyVars

\* The process is killed inside save_pkl(self.conf, self.save_opt): a
\* part of the fingerprint file is written.
KillDuringSave ==
    /\ pc = "saveopt"
    /\ fp' = Corrupt
    /\ pc' = "killed"
    /\ UNCHANGED <<tool, corpus, budget, runs, conf, i, scp, labfiles,
                   written, fpWritten, fpBefore, prev, result, log>>
    /\ UNCHANGED copyVars
    /\ UNCHANGED made

StartRun == \E c \in Confs(tool) : Start(c)

\* An empty save_folder, no run yet.
InitFolder ==
    /\ runs = 0
    /\ pc = "idle"
    /\ conf = NoConf
    /\ i = 1
    /\ scp = [f \in ScpNames |-> Absent]
    /\ fp = Absent
    /\ labfiles = {}
    /\ written = {}
    /\ fpWritten = FALSE
    /\ fpBefore = Absent
    /\ prev = [pc |-> "idle", conf |-> NoConf]
    /\ result = NoResult
    /\ log = {}
    /\ made = {}

\* The defaults of copy_cmd, copy_opts, uncompress_cmd, uncompress_opts.
DefaultCopyConf ==
    [copy_cmd |-> <<"rsync">>, copy_opts |-> <<>>,
     uncompress_cmd |-> <<"tar">>, uncompress_opts |-> <<"-zxf">>]

\* No invocation of copy_data_locally.
NoStaging ==
    /\ archives = <<>>
    /\ dest0 = {}
    /\ dest = {}
    /\ extracted = {}
    /\ cpc = "idle"
    /\ ci = 1
    /\ calls = 0
    /\ issued = <<>>
    /\ copyConf = DefaultCopyConf

InitCommon ==
    /\ InitFolder
    /\ NoStaging

\* A new save_folder, used MaxRuns times by one of the two classes.
Init ==
    /\ tool \in {"timit", "librispeech"}
    /\ corpus \in Corpora(tool)
    /\ budget = MaxRuns
    /\ InitCommon

Next ==
    \/ StartRun
    \/ Validate
    \/ TimitBuildSplit
    \/ LibriBuildSplit
    \/ SaveOpt
    \/ Kill
    \/ KillDuringBuild

Spec == Init /\ [][Next]_vars

-----------------------------------------------------------------------------
(* One build of timit_prepare over wav lists of many sizes *)

ScpSizes == (0..MaxSmallN) \cup {RatioDen - 1, RatioDen, RatioDen + 1}

ScpCorpora ==
    {TimitCorpus(n, m, {}) :
        <<n, m>> \in {p \in ScpSizes \X SUBSET (1..(RatioDen + 1)) :
                        /\ p[2] \subseteq 1..p[1]
                        /\ Cardinality(p[2]) <= MaxMissing}}

InitScp ==
    /\ tool = "timit"
    /\ corpus \in ScpCorpora
    /\ budget = 1
    /\ InitCommon

NextScp ==
    \/ StartRun
    \/ Validate
    \/ TimitBuildSplit
    \/ SaveOpt
    \/ Kill
    \/ KillDuringBuild

SpecScp == InitScp /\ [][NextScp]_vars

-----------------------------------------------------------------------------
(* One run over data folders of many shapes *)

\* Files that a TIMIT data_folder may hold.
TimitPool ==
    <<TimitPath(Seg("TIMIT"), "train", Seg("mtpg0"), Seg("sx1")),
      TimitPath(Seg("TIMIT"), "train", Seg("mtpg0"), Seg("sa1")),
      TimitPath(Seg("TIMIT"), "train", Seg("mtpg0"), Seg("sa10")),
      <<Seg("TIMIT"), Seg("train"), Seg("dr3"), Seg("mtpg0"),
        <<"sx1", ".wrd">>>>,
      <<Seg("TIMIT"), Seg("train"), Seg("dr4"), Seg("mtpg0"),
        <<"sx1", ".wav">>>>,
      TimitPath(Seg("TIMIT"), "train", <<"a", "_", "b">>, Seg("c")),
      TimitPath(Seg("TIMIT"), "train", Seg("a"), <<"b", "_", "c">>),
      TimitPath(Seg("TIMIT"), "test", Seg("fadg0"), Seg("sx1")),
      TimitPath(Seg("TIMIT"), "test", Seg("fdhc0"), Seg("sx1")),
      TimitPath(Seg("TIMIT"), "test", Seg("mabc0"), Seg("sx1")),
      TimitPath(Seg("trainset"), "test", Seg("faks0"), Seg("sx2"))>>

\* Files that a LibriSpeech data_folder may hold.
LibriPool ==
    <<LibriPath("dev-clean", 1),
      <<Seg("LibriSpeech"), Seg("dev-clean"), Seg("84"), Seg("121550"),
        <<"84", "-", "121123", "-", "1", ".flac">>>>,
      <<Seg("LibriSpeech"), Seg("dev-clean"), Seg("84"), Seg("121123"),
        <<"84", "-", "121123", ".trans.txt">>>>,
      LibriPath("dev-clean", 2),
      LibriPath("test-clean", 1)>>

\* The files of pool with a number in idx, in the order of pool.
RECURSIVE Chosen(_, _, _)
Chosen(pool, idx, k) ==
    IF k > Len(pool) THEN <<>>
    ELSE (IF k \in idx THEN <<pool[k]>> ELSE <<>>)
         \o Chosen(pool, idx, k + 1)

\* A data_folder with the given files, every label, side file and
\* transcript being there.
DiscCorpus(t, files) ==
    [files |-> files,
     lab   |-> AllIds(files),
     nosib |-> {},
     nodir |-> {},
     phn   |-> IF t = "timit" THEN TimitPhn ELSE <<>>,
     wrd   |-> IF t = "timit" THEN TimitWrd ELSE <<>>,
     trans |-> IF t = "timit" THEN <<>> ELSE LibriTrans,
     text  |-> IF t = "timit" THEN {}
               ELSE {LibriSntId(w) : w \in Range(files)}]

DiscCorpora(t) ==
    LET pool == IF t = "timit" THEN TimitPool ELSE LibriPool
    IN  {DiscCorpus(t, Chosen(pool, idx, 1)) :
            idx \in {x \in SUBSET (1..Len(pool)) : Cardinality(x) <= MaxFiles}}

InitDisc ==
    /\ tool \in {"timit", "librispeech"}
    /\ corpus \in DiscCorpora(tool)
    /\ budget = 1
    /\ InitCommon

NextDisc ==
    \/ StartRun
    \/ Validate
    \/ TimitBuildSplit
    \/ LibriBuildSplit
    \/ SaveOpt
    \/ Kill
    \/ KillDuringBuild

SpecDisc == InitDisc /\ [][NextDisc]_vars

-----------------------------------------------------------------------------
(* Corpora with varied file names and varied side-file contents *)

\* Names of data_folder: one without and one with a space.
TextRoots == {Seg("TIMIT"), <<"my", " ", "TIMIT">>}

\* Contents of a .phn file: the usual one; a line with two spaces after the
\* first number; a line with a fourth part and a symbol that ends in 'h#';
\* an empty file; a line of two parts.
PhnContents ==
    {TimitPhn,
     <<<<"0", " ", " ", "3050", " ", "h#">>>>,
     <<<<"0", " ", "3050", " ", "h#", " ", "sh">>,
       <<"3050", " ", "4559", " ", "a", "h#">>>>,
     <<>>,
     <<<<"0", " ", "3050", " ", "h#">>, <<"3050", " ", "4559">>>>}

\* Contents of a .wrd file: the usual one, an empty file, a line of two
\* parts.
WrdContents ==
    {TimitWrd, <<>>, <<<<"3050", " ", "she">>>>}

\* Words of a line of trans.txt: the usual ones; two spaces in a row; a tab
\* between two words; a space at the end; none.
TransContents ==
    {LibriTrans, <<"GO", " ", " ", "DO">>, <<"GO", "\t", "DO">>,
     <<"GO", " ", "DO", " ">>, <<>>}

TextTimitFiles(root) ==
    <<TimitPath(root, "train", Seg("mtpg0"), Stem(1)),
      TimitPath(root, "test", Seg("fadg0"), Stem(1)),
      TimitPath(root, "test", Seg("fdhc0"), Stem(1))>>

TextCorpora(t) ==
    IF t = "timit"
    THEN {[TimitCorpus(1, {}, {}) EXCEPT
              !.files = TextTimitFiles(root),
              !.lab = AllIds(TextTimitFiles(root)),
              !.phn = p, !.wrd = w] :
            root \in TextRoots, p \in PhnContents, w \in WrdContents}
    ELSE {[LibriCorpus({}) EXCEPT
              !.files = <<[LibriPath("dev-clean", 1) EXCEPT ![1] = root],
                          [LibriPath("test-clean", 3) EXCEPT ![1] = root]>>,
              !.trans = tr] :
            root \in TextRoots, tr \in TransContents}

InitText ==
    /\ tool \in {"timit", "librispeech"}
    /\ corpus \in TextCorpora(tool)
    /\ budget = 1
    /\ InitCommon

NextText ==
    \/ StartRun
    \/ Validate
    \/ TimitBuildSplit
    \/ LibriBuildSplit
    \/ SaveOpt

SpecText == InitText /\ [][NextText]_vars

-----------------------------------------------------------------------------
(* Runs that may be killed inside save_pkl *)

InitSave ==
    /\ tool \in {"timit", "librispeech"}
    /\ corpus \in Corpora(tool)
    /\ budget = MaxSaveRuns
    /\ InitCommon

NextSave ==
    \/ StartRun
    \/ Validate
    \/ TimitBuildSplit
    \/ LibriBuildSplit
    \/ SaveOpt
    \/ Kill
    \/ KillDuringBuild
    \/ KillDuringSave

SpecSave == InitSave /\ [][NextSave]_vars

-----------------------------------------------------------------------------
(* copy_data_locally *)

\* An archive of self.data_file: its folder and its name.
Archive(dir, base) == [dir |-> dir, base |-> base]

ArchiveLists ==
    {<<>>,
     <<Archive("/nfs", "timit.tar.gz")>>,
     <<Archive("/nfs", "timit.tar.gz"), Archive("/nfs", "libri.tar.gz")>>,
     <<Archive("/nfs", "timit.tar.gz"), Archive("/old", "timit.tar.gz")>>,
     <<Archive("/nfs", "timit.tar.gz"), Archive("/nfs", "timit.tar.gz")>>}

\* os.path.basename(data_file)
basename(data_file) == data_file.base

\* self.dest_file = upper_folder + "/" + os.path.basename(data_file), as
\* the name of a file of upper_folder
DestFile(data_file) == basename(data_file)

\* A test that finds no file.
Exists_Never(files, f) == FALSE

\* os.path.exists(self.dest_file)
Exists(files, f) == f \in files

\* run_shell(cmd) for the copy command: the command succeeds, or fails
\* with the destination file written ("partial") or not.
CopyOutcomes == {"ok", "partial", "fail"}

\* run_shell(cmd) for the uncompress command; it cannot succeed without its
\* input file.
UncompressOutcomes(copied) == IF copied = "fail" THEN {"fail"} ELSE {"ok", "fail"}

\* What the constructor does with the exit status of run_shell(cmd): the
\* call is a statement, the status is dropped.
AfterCommand(outcome) == "next statement"

\* A text is a sequence of pieces; the piece " " is one space character.
\* The words of a text, as a shell splits a command line.
RECURSIVE Words(_, _)
Words(text, word) ==
    IF text = <<>> THEN (IF word = <<>> THEN <<>> ELSE <<word>>)
    ELSE IF Head(text) = " "
         THEN (IF word = <<>> THEN <<>> ELSE <<word>>)
              \o Words(Tail(text), <<>>)
         ELSE Words(Tail(text), Append(word, Head(text)))

Tokens(text) == Words(text, <<>>)

\* The expected options and their defaults; the flags are any text.
CopyConfs ==
    [copy_cmd : {<<"rsync">>},
     copy_opts : {<<>>, <<"-a">>, <<"-a", " ", "-v">>},
     uncompress_cmd : {<<"tar">>},
     uncompress_opts : {<<"-zxf">>, <<>>}]

\* self.local_folder after self.local_folder + "/", and
\* os.path.dirname(os.path.dirname(self.local_folder))
local_folder == "/scratch/data/"
upper_folder == "/scratch"

\* data_file and self.dest_file as texts
ArchivePath(data_file) == data_file.dir \o "/" \o data_file.base
DestPath(data_file) == upper_folder \o "/" \o basename(data_file)

\* cmd of the copy: copy_cmd + " " + copy_opts + data_file + " " + dest_file
CopyCmd(c, data_file) ==
    c.copy_cmd \o <<" ">> \o c.copy_opts \o <<ArchivePath(data_file)>>
        \o <<" ">> \o <<DestPath(data_file)>>

\* An uncompress command that leaves the leading path component.
UncompressCmd_NoStrip(c, data_file) ==
    c.uncompress_cmd \o <<" ">> \o c.uncompress_opts
        \o <<DestPath(data_file)>> \o <<" ", "-C", " ">> \o <<" ">>
        \o <<local_folder>>

\* cmd of the uncompress: uncompress_cmd + " " + uncompress_opts + dest_file
\* + " -C " + " " + local_folder + " --strip-components=1"
UncompressCmd(c, data_file) ==
    c.uncompress_cmd \o <<" ">> \o c.uncompress_opts
        \o <<DestPath(data_file)>> \o <<" ", "-C", " ">> \o <<" ">>
        \o <<local_folder>> \o <<" ", "--strip-components=1">>

Command(kind, data_file, outcome) ==
    [kind |-> kind, file |-> data_file, dest |-> DestFile(data_file),
     outcome |-> outcome,
     cmd |-> IF kind = "copy" THEN CopyCmd(copyConf, data_file)
             ELSE UncompressCmd(copyConf, data_file)]

\* The constructor up to the loop over self.data_file.
CopyStart ==
    /\ cpc \in {"idle", "returned", "config_error"}
    /\ calls < MaxCopyCalls
    /\ calls' = calls + 1
    /\ ci' = 1
    /\ cpc' = "loop"
    /\ issued' = Append(issued, <<>>)
    /\ UNCHANGED <<archives, dest0, dest, extracted, copyConf>>
    /\ UNCHANGED buildVars
    /\ made' = made \cup {"local_folder"}

\* One iteration of the loop over self.data_file.
StageFile ==
    /\ cpc = "loop"
    /\ ci <= Len(archives)
    /\ LET data_file == archives[ci]
       IN  IF Exists(dest, DestFile(data_file))
           THEN UNCHANGED <<dest, extracted, issued>>
           ELSE \E copied \in CopyOutcomes :
                \E unpacked \in UncompressOutcomes(copied) :
                   /\ AfterCommand(copied) = "next statement"
                   /\ dest' = IF copied = "fail" THEN dest
                              ELSE dest \cup {DestFile(data_file)}
                   /\ extracted' = IF unpacked = "ok"
                                   THEN extracted \cup {DestFile(data_file)}
                                   ELSE extracted
                   /\ issued' = [issued EXCEPT ![calls] = @ \o
                         <<Command("copy", data_file, copied),
                           Command("uncompress", data_file, unpacked)>>]
    /\ ci' = ci + 1
    /\ UNCHANGED <<archives, dest0, cpc, calls, copyConf>>
    /\ UNCHANGED buildVars
    /\ UNCHANGED made

\* The end of the loop: the constructor returns.
CopyReturn ==
    /\ cpc = "loop"
    /\ ci > Len(archives)
    /\ cpc' = "returned"
    /\ UNCHANGED <<archives, dest0, dest, extracted, ci, calls, issued,
                   copyConf>>
    /\ UNCHANGED buildVars
    /\ UNCHANGED made

\* An archive list and an upper_folder that may hold a file already; no
\* constructor of the manifest builders runs.
InitCopy ==
    /\ tool = "timit"
    /\ corpus = TimitCorpus(0, {}, {})
    /\ budget = 0
    /\ InitFolder
    /\ archives \in ArchiveLists
    /\ dest0 \in {{}, {"timit.tar.gz"}}
    /\ dest = dest0
    /\ extracted = {}
    /\ cpc = "idle"
    /\ ci = 1
    /\ calls = 0
    /\ issued = <<>>
    /\ copyConf \in CopyConfs

NextCopy ==
    \/ CopyStart
    \/ StageFile
    \/ CopyReturn

SpecCopy == InitCopy /\ [][NextCopy]_vars

-----------------------------------------------------------------------------
(* Constructors called with options that check_opts rejects *)

\* The folders created before check_opts has returned.
CreatedBeforeCheck_SaveFolder(class) == {"save_folder"}

\* The statements of the three constructors before the call of check_opts
\* create no folder.
CreatedBeforeCheck(class) == {}

\* Options outside expected_options: a split that is not one of the list,
\* a select_n_sentences below 1.
InvalidConfs(t) ==
    IF t = "timit"
    THEN {[class |-> "timit", splits |-> {"validation"}, kaldi |-> FALSE]}
    ELSE {[class |-> "librispeech", splits |-> <<"dev-clean">>,
           select_n_sentences |-> <<0>>]}

\* Options of copy_data_locally without the mandatory data_file.
InvalidCopyConfs ==
    {[copy_cmd |-> <<"rsync">>, copy_opts |-> <<>>,
      uncompress_cmd |-> <<"tar">>, uncompress_opts |-> <<"-zxf">>,
      data_file |-> NoneOpt]}

\* timit_prepare / librispeech_prepare called with options that check_opts
\* rejects: the constructor ends in check_opts.
StartInvalid ==
    /\ pc \in Terminal
    /\ runs < budget
    /\ \E c \in InvalidConfs(tool) :
          /\ check_opts(Confs(tool), c) = "fatal"
          /\ prev' = [pc |-> pc, conf |-> conf]
          /\ conf' = c
    /\ runs' = runs + 1
    /\ written' = {}
    /\ fpWritten' = FALSE
    /\ fpBefore' = fp
    /\ log' = {"configuration"}
    /\ result' = NoResult
    /\ i' = 1
    /\ pc' = "config_error"
    /\ made' = made \cup CreatedBeforeCheck(tool)
    /\ UNCHANGED <<tool, corpus, budget, scp, fp, labfiles>>
    /\ UNCHANGED copyVars

\* copy_data_locally called with options that check_opts rejects.
CopyInvalid ==
    /\ cpc \in {"idle", "returned", "config_error"}
    /\ calls < MaxCopyCalls
    /\ \E c \in InvalidCopyConfs : check_opts(CopyConfs, c) = "fatal"
    /\ calls' = calls + 1
    /\ ci' = 1
    /\ cpc' = "config_error"
    /\ issued' = Append(issued, <<>>)
    /\ made' = made \cup CreatedBeforeCheck("copy_data_locally")
    /\ UNCHANGED <<archives, dest0, dest, extracted, copyConf>>
    /\ UNCHANGED buildVars

\* One save_folder and one local_folder, each used by constructor calls
\* with valid or invalid options.
InitConf ==
    /\ tool \in {"timit", "librispeech"}
    /\ corpus \in {TimitCorpus(2, {}, {}), LibriCorpus({})}
    /\ corpus \in Corpora(tool)
    /\ budget = MaxConfRuns
    /\ InitFolder
    /\ archives = <<Archive("/nfs", "timit.tar.gz")>>
    /\ dest0 = {}
    /\ dest = dest0
    /\ extracted = {}
    /\ cpc = "idle"
    /\ ci = 1
    /\ calls = 0
    /\ issued = <<>>
    /\ copyConf = DefaultCopyConf

NextConf ==
    \/ StartRun
    \/ StartInvalid
    \/ Validate
    \/ TimitBuildSplit
    \/ LibriBuildSplit
    \/ SaveOpt
    \/ CopyStart
    \/ CopyInvalid
    \/ StageFile
    \/ CopyReturn

SpecConf == InitConf /\ [][NextConf]_vars

-----------------------------------------------------------------------------
(* Properties of the fingerprint cache *)

\* The manifests a run with configuration c is about.
Expected(c) == Range(SplitSeq(c))

InRun == runs > 0

\* C1: a run that follows a completed build with the same configuration
\* (the corpus never changes) returns from skip() with true, and writes no
\* manifest and no fingerprint.
C1_SecondRunIsCacheHit ==
    (InRun /\ prev.pc = "done" /\ prev.conf = conf)
        => (pc = "skipped" /\ written = {} /\ ~fpWritten)

\* C2: a run that finds the fingerprint of a configuration other than its
\* own does not return from skip() with true: it goes on to build.
C2_ChangedConfIsRebuilt ==
    (InRun /\ fpBefore # Absent /\ fpBefore # conf) => pc # "skipped"

\* C2, witness: every manifest of the run's splits is there and the
\* fingerprint is that of another configuration; the run has rebuilt.
C2_Witness ==
    /\ InRun
    /\ fpBefore # Absent
    /\ fpBefore # conf
    /\ fpBefore.splits = conf.splits
    /\ prev.pc = "done"
    /\ pc = "done"
    /\ written = Expected(conf)

\* C3: librispeech_prepare.skip() is false when opt_librispeech_prepare.pkl
\* does not exist, whatever manifests exist.
C3_NoFingerprintNoSkip ==
    (InRun /\ tool = "librispeech" /\ fpBefore = Absent) => pc # "skipped"

\* C4: when a run returns from skip() with true, every manifest of its
\* splits was last written by a build with the run's configuration.
C4_NoStaleManifestReused ==
    (InRun /\ pc = "skipped")
        => \A s \in Expected(conf) : scp[s] # Absent /\ scp[s].by = conf

\* C5: the fingerprint written by a run is its configuration, and it is
\* written only when the manifest of every requested split has been written
\* by that run.
C5_FingerprintAfterManifests ==
    fpWritten => (fp = conf /\ Expected(conf) \subseteq written)

\* C5, witness: a run over two splits or more has written its fingerprint.
C5_Witness ==
    /\ fpWritten
    /\ pc = "done"
    /\ Cardinality(Expected(conf)) >= 2

\* C6: a killed run leaves the fingerprint as it found it, and the run that
\* follows it with the same configuration does not return from skip() with
\* true.
C6_KilledRunIsRebuilt ==
    /\ pc = "killed" => fp = fpBefore
    /\ (InRun /\ prev.pc = "killed" /\ prev.conf = conf) => pc # "skipped"

\* C13: a run that finds a fingerprint file that cannot be loaded does not
\* fail in skip() and does not return from it with true: it rebuilds.
C13_UnreadableFingerprintRebuilds ==
    (InRun /\ fpBefore = Corrupt) => pc \notin {"skipped", "load_failed"}

-----------------------------------------------------------------------------
(* Properties of timit_prepare.create_scp with kaldi labels *)

\* A create_scp call with a label source has ended.
LabelBuild == result # NoResult /\ result.kaldi

\* The utterances of the last wav list that have no label.
Unlabelled == {k \in 1..Len(result.wav_lst) :
                  SntId(result.wav_lst[k]) \notin corpus.lab}

Lines == scp[result.split].lines

Wrote == result.raised = "none"

\* C7: every utterance without a label is counted once and has no record in
\* the manifest written for the split.
C7_UnlabelledExcluded ==
    LabelBuild =>
        /\ Wrote => result.snt_no_lab = Cardinality(Unlabelled)
        /\ Wrote => \A k \in 1..Len(Lines) : Lines[k].ID \in corpus.lab

\* C8: every record of the manifest carries the label path of its own id,
\* and the label of that id was saved at that path by this build.
C8_OwnLabelPath ==
    (LabelBuild /\ Wrote) =>
        \A k \in 1..Len(Lines) :
            /\ Lines[k].kaldi_lab = LabPath(Lines[k].ID)
            /\ [path |-> LabPath(Lines[k].ID), blob |-> Lines[k].ID]
                   \in result.saved

\* C9: when more than 0.05 of the files of the split have no label, the
\* build of the split is aborted and writes no manifest.
C9_TooManyMissingAborts ==
    (LabelBuild /\ TooManyMissing(Cardinality(Unlabelled),
                                  Len(result.wav_lst)))
        => (~Wrote /\ result.split \notin written)

\* ceil(0.05 * n)
CeilRatio(n) == (n + RatioDen - 1) \div RatioDen

\* C10: with ceil(0.05 N) labels missing out of N >= 1 the build succeeds
\* without threshold error and the manifest holds the N - ceil(0.05 N)
\* labelled utterances; with one more missing the threshold error is
\* triggered.
C10_ThresholdBoundary ==
    LET n == Len(result.wav_lst)
        m == Cardinality(Unlabelled)
    IN  (LabelBuild /\ n >= 1) =>
            /\ m = CeilRatio(n) =>
                  /\ Wrote
                  /\ result.errs = 0
                  /\ Len(Lines) = n - m
                  /\ \A k \in 1..Len(Lines) : Lines[k].ID \in corpus.lab
            /\ m = CeilRatio(n) + 1 => result.errs > 0

-----------------------------------------------------------------------------
(* Properties of a run that meets an error *)

\* C11: a run in which a split met a fatal error (an expected folder is
\* missing, or too many labels are missing) writes no fingerprint.
C11_NoFingerprintAfterFatal == (InRun /\ log # {}) => ~fpWritten

\* The utterances of the last wav list without a .wrd / .phn file (TIMIT) or
\* without a transcript (LibriSpeech).
NoSideFile ==
    {k \in 1..Len(result.wav_lst) :
        IF tool = "timit"
        THEN SntId(result.wav_lst[k]) \in corpus.nosib
        ELSE LibriSntId(result.wav_lst[k]) \notin corpus.text}

\* C12: an utterance without its side file does not abort the build of the
\* split: unless the build ends for another reason, the manifest of the
\* split is written.
C12_MissingSideFileTolerated ==
    (/\ result # NoResult
     /\ NoSideFile # {}
     /\ result.raised \notin {"IndexError", "UnboundLocalError"})
        => (Wrote /\ result.split \in written)

\* C16: the folders are checked before any file is discovered, and a run
\* that finds an expected folder missing ends there: it discovers nothing
\* and writes no manifest and no fingerprint.
C16_StructureErrorEndsRun ==
    /\ result # NoResult => pc \notin {"idle", "skipped", "validate"}
    /\ (InRun /\ "structure" \in log) =>
          /\ pc = "crashed"
          /\ result = NoResult
          /\ written = {}
          /\ ~fpWritten

-----------------------------------------------------------------------------
(* Properties of the records of a manifest *)

Min(a, b) == IF a <= b THEN a ELSE b

\* The limit on the number of records of the split built last; none when
\* select_n_sentences is not set.
SelectLimit ==
    IF tool = "librispeech" /\ conf.select_n_sentences # NoneOpt
    THEN <<conf.select_n_sentences[i - 1]>>
    ELSE NoneOpt

\* C17: the manifest of split i of librispeech_prepare holds the records of
\* the first min(select_n_sentences[i], number of files) files, of all files
\* when select_n_sentences is not set; a run that ends its last split
\* writes the fingerprint, truncated or not.
C17_SelectNTruncates ==
    /\ (tool = "librispeech" /\ result # NoResult /\ Wrote) =>
          LET n    == Len(result.wav_lst)
              want == IF SelectLimit = NoneOpt THEN n
                      ELSE Min(SelectLimit[1], n)
          IN  /\ Len(Lines) = want
              /\ \A k \in 1..want :
                    /\ Lines[k].wav = result.wav_lst[k]
                    /\ Lines[k].ID = LibriSntId(result.wav_lst[k])
    /\ (tool = "librispeech" /\ pc = "done") => (fpWritten /\ fp = conf)

\* C17, witness: a manifest cut to fewer records than there are files, in a
\* run that has written its fingerprint.
C17_Witness ==
    /\ tool = "librispeech"
    /\ result # NoResult
    /\ Wrote
    /\ SelectLimit # NoneOpt
    /\ SelectLimit[1] < Len(result.wav_lst)
    /\ Len(Lines) = SelectLimit[1]
    /\ pc = "done"
    /\ fpWritten

\* a is b without some of its elements.
RECURSIVE IsSubSeq(_, _)
IsSubSeq(a, b) ==
    IF a = <<>> THEN TRUE
    ELSE IF b = <<>> THEN FALSE
    ELSE IF Head(a) = Head(b) THEN IsSubSeq(Tail(a), Tail(b))
    ELSE IsSubSeq(a, Tail(b))

LineWavs == [k \in 1..Len(Lines) |-> Lines[k].wav]

\* No label of the last wav list is missing and no limit cuts the manifest.
FullBuild ==
    /\ result.kaldi => Unlabelled = {}
    /\ SelectLimit = NoneOpt

\* C20: the records of a manifest are in the order of the files of the
\* discovered list; when no label is missing and no limit is set, the k-th
\* record is that of the k-th file.
C20_DiscoveryOrder ==
    (result # NoResult /\ Wrote) =>
        /\ IsSubSeq(LineWavs, result.wav_lst)
        /\ FullBuild =>
              /\ Len(Lines) = Len(result.wav_lst)
              /\ \A k \in 1..Len(Lines) : Lines[k].wav = result.wav_lst[k]

\* C20, witness: a manifest of two files or more, nothing missing.
C20_Witness ==
    /\ result # NoResult
    /\ Wrote
    /\ FullBuild
    /\ Len(result.wav_lst) >= 2
    /\ Len(Lines) = Len(result.wav_lst)

-----------------------------------------------------------------------------
(* Properties of file discovery and of the ids *)

\* C18: no two records of a written manifest have the same ID, whatever
\* distinct files were discovered.
C18_IdsUnique ==
    (result # NoResult /\ Wrote) =>
        \A j \in 1..Len(Lines) : \A k \in 1..Len(Lines) :
            j # k => Lines[j].ID # Lines[k].ID

\* What makes a file of data_folder a file of the split.
IsOfSplit(f, split) ==
    /\ Contains(f, ".wav")
    /\ Contains(f, IF split = "train" THEN "train" ELSE "test")
    /\ split = "dev" => \E spk \in dev_spk : Contains(f, spk)
    /\ split = "test" => \E spk \in test_spk : Contains(f, spk)
    /\ ~Contains(f, "sa1")
    /\ ~Contains(f, "sa2")

\* C19: the files given to create_scp for a TIMIT split are the files of
\* data_folder whose path holds ".wav", the folder name of the split, a
\* speaker of the split's list (dev, test), and neither "sa1" nor "sa2".
C19_TimitDiscovery ==
    (tool = "timit" /\ result # NoResult) =>
        Range(result.wav_lst) =
            {f \in Range(corpus.files) : IsOfSplit(f, result.split)}

\* C19, witness: of two files under test/, the dev list holds the one of
\* the dev speaker.
C19_Witness ==
    /\ tool = "timit"
    /\ result # NoResult
    /\ result.split = "dev"
    /\ Len(corpus.files) = 2
    /\ \A k \in 1..2 : Contains(corpus.files[k], "test")
    /\ Len(result.wav_lst) = 1

-----------------------------------------------------------------------------
(* Properties of copy_data_locally *)

\* The commands of invocation n of the given kind for the archive at
\* position k of the list.
CommandsFor(n, kind, k) ==
    {j \in 1..Len(issued[n]) :
        /\ issued[n][j].kind = kind
        /\ issued[n][j].file = archives[k]}

TwoCallsDone == calls = 2 /\ cpc = "returned"

\* C14 as stated: of two invocations with the same archive list, the first
\* issues one copy and one uncompress command for every archive of the list
\* and the second issues no command.
C14_OncePerArchive ==
    TwoCallsDone =>
        /\ Len(issued[1]) = 2 * Len(archives)
        /\ \A k \in 1..Len(archives) :
              /\ issued[1][2 * k - 1] = Command("copy", archives[k],
                                                issued[1][2 * k - 1].outcome)
              /\ issued[1][2 * k].kind = "uncompress"
              /\ issued[1][2 * k].file = archives[k]
        /\ issued[2] = <<>>

\* The names of the archives of the list.
Basenames == {basename(archives[k]) : k \in 1..Len(archives)}

\* No destination is there before the first invocation, and every copy
\* command of the first invocation leaves its destination file.
FirstCallStages ==
    /\ dest0 \cap Basenames = {}
    /\ \A j \in 1..Len(issued[1]) :
          issued[1][j].kind = "copy" => issued[1][j].outcome # "fail"

\* C14, amended: when no destination is there before the first invocation
\* and every copy of the first invocation leaves its destination file, the
\* first invocation issues one copy and then one uncompress command for
\* every archive name of the list, and the second issues no command.
C14_OncePerStagedName ==
    (TwoCallsDone /\ FirstCallStages) =>
        /\ Len(issued[1]) = 2 * Cardinality(Basenames)
        /\ \A b \in Basenames :
              \E j \in 1..Len(issued[1]) :
                 /\ j + 1 <= Len(issued[1])
                 /\ issued[1][j].kind = "copy"
                 /\ issued[1][j].dest = b
                 /\ issued[1][j + 1].kind = "uncompress"
                 /\ issued[1][j + 1].dest = b
        /\ issued[2] = <<>>

\* C14, witness: two archives staged by the first of two invocations.
C14_Witness ==
    /\ TwoCallsDone
    /\ FirstCallStages
    /\ Cardinality(Basenames) = 2
    /\ Len(issued[1]) = 4
    /\ issued[2] = <<>>

\* C15: an invocation in which a copy or an uncompress command failed does
\* not return as one in which every command succeeded: it ends as failed.
C15_FailureSurfaced ==
    (/\ calls > 0
     /\ cpc \in {"returned", "failed"}
     /\ \E j \in 1..Len(issued[calls]) : issued[calls][j].outcome # "ok")
        => cpc = "failed"

-----------------------------------------------------------------------------
(* Properties of a split without files *)

\* The last create_scp call was given an empty list, by a constructor whose
\* select_n_sentences, if set, has an entry for the split.
EmptyBuild ==
    /\ result # NoResult
    /\ Len(result.wav_lst) = 0
    /\ result.raised # "IndexError"

\* C21: the build of a split for which no file is discovered ends without
\* error, with or without labels, and writes an empty manifest; the run
\* goes on, and when it ends it has written the fingerprint.
C21_EmptySplitBuilds ==
    EmptyBuild =>
        /\ Wrote
        /\ result.errs = 0
        /\ result.split \in written
        /\ Lines = <<>>
        /\ pc \in {"build", "saveopt", "done", "killed"}
        /\ pc = "done" => (fpWritten /\ fp = conf)

\* C21, witness: a TIMIT run with labels whose last split has no file has
\* written an empty manifest and the fingerprint.
C21_Witness ==
    /\ EmptyBuild
    /\ tool = "timit"
    /\ result.kaldi
    /\ Wrote
    /\ Lines = <<>>
    /\ pc = "done"
    /\ fpWritten

-----------------------------------------------------------------------------
(* Properties of timit_prepare.skip *)

\* train.scp, dev.scp, test.scp and opt_timit_prepare.pkl are there and
\* the options of the last are those of c.
TimitCacheHit(c) ==
    /\ scp["train"] # Absent
    /\ scp["dev"] # Absent
    /\ scp["test"] # Absent
    /\ fp # Absent
    /\ fp = c

\* A step that takes a TIMIT constructor to the return of skip().
TimitSkipStep == tool = "timit" /\ runs' = runs + 1

\* C26: skip() of timit_prepare returns true when the three manifests and
\* the option file exist and the saved options equal the current ones, it
\* returns false in every other case, and it changes no file.
C26_TimitSkipIff ==
    [][TimitSkipStep =>
          /\ pc' \in {"skipped", "validate"}
          /\ pc' = "skipped" <=> TimitCacheHit(conf')
          /\ UNCHANGED <<scp, fp, labfiles>>]_vars

-----------------------------------------------------------------------------
(* Properties of the three TIMIT lists *)

\* The audio files listed in the manifest of split s.
WavsOf(s) == {scp[s].lines[k].wav : k \in 1..Len(scp[s].lines)}

\* The folder of data_folder a file is in: "train" or "test".
TopFolder(w) == w[2]

\* C29: the manifests written by one TIMIT run have no audio file in
\* common; the train manifest lists no file of data_folder/test, and the dev
\* and test manifests list no file of data_folder/train.
C29_SplitsDisjoint ==
    tool = "timit" =>
        /\ \A s \in written : \A t \in written :
              s # t => WavsOf(s) \cap WavsOf(t) = {}
        /\ "train" \in written =>
              \A w \in WavsOf("train") : TopFolder(w) # Seg("test")
        /\ \A s \in written \cap {"dev", "test"} :
              \A w \in WavsOf(s) : TopFolder(w) # Seg("train")

-----------------------------------------------------------------------------
(* Properties of the commands of copy_data_locally *)

\* The last n elements of a sequence.
LastN(s, n) == SubSeq(s, Len(s) - n + 1, Len(s))

\* A step of the loop over the archives.
LoopStep == cpc = "loop" /\ cpc' = "loop"

\* The two commands that a step of the loop adds for archive a: a copy to
\* <parent of local_folder>/<basename of a>, then an uncompress of that file
\* into local_folder that strips one path component.
StagedBy(a, new) ==
    /\ Len(new) = 2
    /\ new[1].kind = "copy"
    /\ new[1].file = a
    /\ LastN(Tokens(new[1].cmd), 1) = <<<<upper_folder \o "/" \o a.base>>>>
    /\ new[2].kind = "uncompress"
    /\ new[2].file = a
    /\ LastN(Tokens(new[2].cmd), 3) =
          <<<<"-C">>, <<local_folder>>, <<"--strip-components=1">>>>

ExpectedTokens(c, kind, a) ==
    IF kind = "copy"
    THEN <<c.copy_cmd>> \o Tokens(c.copy_opts)
            \o <<<<ArchivePath(a)>>, <<DestPath(a)>>>>
    ELSE <<c.uncompress_cmd>> \o Tokens(c.uncompress_opts)
            \o <<<<DestPath(a)>>, <<"-C">>, <<local_folder>>,
                 <<"--strip-components=1">>>>

\* C28: whatever the flags, every command issued is the command, its flags,
\* and its paths as separate words.
C28_FlagsAreSeparateWords ==
    \A n \in 1..Len(issued) : \A j \in 1..Len(issued[n]) :
        Tokens(issued[n][j].cmd)
            = ExpectedTokens(copyConf, issued[n][j].kind, issued[n][j].file)

\* C30: an archive that a step of the loop skips because its destination
\* exists has been uncompressed into local_folder with success before.
C30_SkippedIsUnpacked ==
    [][(LoopStep /\ issued' = issued)
          => archives[ci].base \in extracted]_vars

-----------------------------------------------------------------------------
(* Properties of a rebuild *)

\* The third part of every line of a side file, joined by "_".
ThirdParts(lines) ==
    Join([k \in 1..Len(lines) |-> SplitAtSpaces(lines[k])[3]], "_")

\* The file of wav_lst, at or before the k-th, that is the last with a
\* label.
LastLabelled(wav_lst, k) ==
    CHOOSE j \in 1..k :
        /\ SntId(wav_lst[j]) \in corpus.lab
        /\ \A m \in (j + 1)..k : SntId(wav_lst[m]) \notin corpus.lab

\* The record of timit_prepare for the k-th file of wav_lst, from the file,
\* its side files, the labels and the configuration: the fields, and the
\* line as its parts with one space between them.
TimitRecord(wav_lst, k) ==
    LET w   == wav_lst[k]
        id  == SpkId(w) \o <<"_">> \o Without(w[Len(w)], ".wav")
        phn == Replace(ThirdParts(corpus.phn), "h#", "sil")
        wrd == ThirdParts(corpus.wrd)
        lab == SntId(wav_lst[LastLabelled(wav_lst, k)])
    IN  [ID |-> id, wav |-> w, spk_id |-> SpkId(w),
         phn |-> phn, wrd |-> wrd,
         kaldi_lab |-> IF conf.kaldi THEN <<"kaldi_labels", lab>>
                       ELSE NoField,
         text |-> Join(<<<<"ID=">> \o id,
                        <<"duration=", duration>>,
                        <<"wav=(">> \o PathText(w) \o <<",wav)">>,
                        <<"spk_id=(">> \o SpkId(w) \o <<",string)">>,
                        <<"phn=(">> \o phn \o <<",string)">>,
                        <<"wrd=(">> \o wrd \o <<",string)">>>>
                      \o (IF conf.kaldi
                          THEN <<<<"kaldi_lab=(", "exp/kaldi_labels/">>
                                     \o lab \o <<".pkl", ",pkl)">>>>
                          ELSE <<>>),
                      " ")]

\* The record of librispeech_prepare for the k-th file of wav_lst.
LibriRecord(wav_lst, k) ==
    LET w   == wav_lst[k]
        id  == LibriSntId(w)
        wrd == Replace(Strip(corpus.trans), " ", "_")
    IN  [ID |-> id, wav |-> w, spk_id |-> LibriSpkId(id), wrd |-> wrd,
         text |-> Join(<<<<"ID=">> \o id,
                        <<"duration=", duration>>,
                        <<"wav=(">> \o PathText(w) \o <<",flac)">>,
                        <<"spk_id=(">> \o LibriSpkId(id) \o <<",string)">>,
                        <<"wrd=(">> \o wrd \o <<",string)">>>>,
                      " ")]

\* The lines that a build of the idx-th split of the configuration emits for
\* the list wav_lst: one record for each file, in the order of the list, for
\* timit_prepare; the same for the first select_n_sentences[idx] files, or
\* for all when no limit is set, for librispeech_prepare.
ExpectedLines(wav_lst, idx) ==
    IF tool = "timit"
    THEN [k \in 1..Len(wav_lst) |-> TimitRecord(wav_lst, k)]
    ELSE LET n == IF conf.select_n_sentences = NoneOpt THEN Len(wav_lst)
                  ELSE Min(conf.select_n_sentences[idx], Len(wav_lst))
         IN  [k \in 1..n |-> LibriRecord(wav_lst, k)]

\* C23: a manifest is written or changed only by a build of its split that
\* ends without error, and it then holds exactly the records that this build
\* emits and nothing of what it held before: its lines are the records of the
\* files of the build's list, in order, each given by the file, its side
\* files, the labels and the configuration alone. Two builds over the same
\* list, the same side files and the same configuration so write the same
\* lines, whatever save_folder held before each of them.
C23_RebuildReplaces ==
    [][\A s \in ScpNames :
          (scp'[s] # scp[s] \/ s \in written' \ written) =>
                /\ result'.split = s
                /\ result'.raised = "none"
                /\ scp'[s].by = conf
                /\ scp'[s].lines = ExpectedLines(result'.wav_lst, i)
      ]_vars

\* C23, witness: train.scp, which a completed run with labels had written
\* with two records that carry a kaldi_lab field, has been written again by
\* a run without labels, and holds two records without that field.
C23_Witness ==
    /\ tool = "timit"
    /\ runs >= 2
    /\ prev.pc = "done"
    /\ "train" \in prev.conf.splits
    /\ prev.conf.kaldi
    /\ ~conf.kaldi
    /\ result # NoResult
    /\ Wrote
    /\ result.split = "train"
    /\ "train" \in written
    /\ Len(Lines) = 2
    /\ \A k \in 1..2 : Lines[k].kaldi_lab = NoField

-----------------------------------------------------------------------------
(* Properties of the option check *)

\* What the constructors leave on disk and the commands they have run.
OnDisk == <<made, scp, fp, labfiles, dest, extracted>>

\* C24: a constructor that ends with a configuration error has created no
\* folder, has run no shell command and has written no manifest and no
\* fingerprint: check_opts comes before every filesystem operation.
C24_CheckOptsFirst ==
    [][/\ (pc' = "config_error" /\ runs' = runs + 1) =>
             (UNCHANGED OnDisk /\ UNCHANGED issued)
       /\ (cpc' = "config_error" /\ calls' = calls + 1) =>
             (UNCHANGED OnDisk /\ issued' = Append(issued, <<>>))
      ]_vars

\* C24, witness: a manifest builder and the stager have each ended with a
\* configuration error as their first call, and nothing is on disk.
C24_Witness ==
    /\ runs = 1
    /\ pc = "config_error"
    /\ calls = 1
    /\ cpc = "config_error"
    /\ made = {}
    /\ fp = Absent
    /\ issued = <<<<>>>>


-----------------------------------------------------------------------------
(* The text of the records *)

\* C25: in every TIMIT record the phn field is the third space-separated
\* part of each line of the .phn file, in the order of the file, with 'h#'
\* replaced by 'sil' and "_" between the parts, and the wrd field is the
\* third part of each line of the .wrd file with "_" between the parts; the
\* line of the manifest carries both between "phn=(" / "wrd=(" and ",string)".
C25_PhnWrdFields ==
    (tool = "timit" /\ result # NoResult /\ Wrote) =>
        \A k \in 1..Len(Lines) :
            /\ Lines[k].phn = Replace(ThirdParts(corpus.phn), "h#", "sil")
            /\ Lines[k].wrd = ThirdParts(corpus.wrd)
            /\ \E j \in 1..Len(SplitAtSpaces(Lines[k].text)) :
                   SplitAtSpaces(Lines[k].text)[j]
                       = <<"phn=(">> \o Lines[k].phn \o <<",string)">>
            /\ \E j \in 1..Len(SplitAtSpaces(Lines[k].text)) :
                   SplitAtSpaces(Lines[k].text)[j]
                       = <<"wrd=(">> \o Lines[k].wrd \o <<",string)">>

\* A TIMIT manifest with a record whose .phn file has 'h#' in its lines and
\* whose .wrd file has two words.
C25_Witness ==
    /\ tool = "timit" /\ result # NoResult /\ Wrote
    /\ Len(Lines) > 0
    /\ \E k \in 1..Len(corpus.phn) : "h#" \in Range(corpus.phn[k])
    /\ "sil" \in Range(Lines[1].phn)
    /\ Lines[1].wrd = <<"she", "_", "had">>

\* The keys of a record, in the order of the line.
Keys ==
    IF tool = "timit"
    THEN <<"ID=", "duration=", "wav=(", "spk_id=(", "phn=(", "wrd=(">>
             \o (IF result.kaldi THEN <<"kaldi_lab=(">> ELSE <<>>)
    ELSE <<"ID=", "duration=", "wav=(", "spk_id=(", "wrd=(">>

\* The payloads of a record.
Payloads(line) ==
    {line.ID, PathText(line.wav), line.spk_id, line.wrd}
        \cup (IF tool = "timit" THEN {line.phn} ELSE {})
        \cup (IF tool = "timit" /\ result.kaldi
              THEN {LabPathText(line.kaldi_lab)} ELSE {})

\* C22: every line of a manifest is a sequence of parts with one space
\* between them, one part per key and in the order of the keys (ID, duration,
\* wav, spk_id, phn, wrd, and kaldi_lab after them when labels are given, for
\* TIMIT; ID, duration, wav, spk_id, wrd for LibriSpeech), and no payload has
\* a space in it, whatever the paths of the files and the words of the
\* transcripts are.
C22_LineIsKeyedParts ==
    (result # NoResult /\ Wrote) =>
        \A k \in 1..Len(Lines) :
            LET parts == SplitAtSpaces(Lines[k].text)
            IN  /\ Len(parts) = Len(Keys)
                /\ \A j \in 1..Len(parts) :
                       parts[j] # <<>> /\ parts[j][1] = Keys[j]
                /\ \A p \in Payloads(Lines[k]) : " " \notin Range(p)


-----------------------------------------------------------------------------
(* The files that a build leaves alone *)

\* The splits of the configuration of the run.
Configured ==
    IF conf.class = "timit" THEN conf.splits
    ELSE IF conf.class = "librispeech" THEN Range(conf.splits)
    ELSE {}

\* C31: no step of a build creates, changes or removes the manifest of a
\* split that is not among the splits of its configuration; a build of
\* librispeech_prepare changes no file but the manifests of its splits and
\* the fingerprint (it writes no label file), and a step that changes a
\* manifest leaves the fingerprint as it is.
C31_OtherManifestsUntouched ==
    [][/\ \A s \in ScpNames :
             s \notin Configured => scp'[s] = scp[s]
       /\ tool = "librispeech" => labfiles' = labfiles
       /\ scp' # scp => (fp' = fp /\ conf' = conf)
      ]_vars

\* C31, witness: a run of timit_prepare for dev and test has ended, and the
\* manifest of train written by a run before it is in save_folder, by the
\* configuration of that run.
C31_Witness ==
    /\ tool = "timit"
    /\ pc = "done"
    /\ runs >= 2
    /\ conf.splits = {"dev", "test"}
    /\ written = {"dev", "test"}
    /\ scp["train"] # Absent
    /\ scp["train"].by # conf

====
